---------------------------- MODULE Spec2Model ----------------------------
(***************************************************************************)
(* A model of kitbash-viewer's file-change pipeline (src/src/main.rs):     *)
(* the notify callback and its mpsc queue, the debounce loop, the          *)
(* broadcast hub and the WebSocket sessions of handle_socket.              *)
(***************************************************************************)
EXTENDS Integers, Sequences, FiniteSets, TLC

(***************************************************************************)
(* Bounds of the model.                                                    *)
(***************************************************************************)
\* number of notify callbacks the watch source makes
MaxRaw == 3
\* the clock stops advancing after this many milliseconds
MaxTime == 160
\* number of WebSocket connections accepted
NSessions == 2
\* inbound messages an observer sends on one connection
MaxInbound == 1
\* number of notify callbacks when the filters are exercised
MaxFilterRaw == 2
\* number of notify callbacks while observers stay connected
MaxHubRaw == 2
\* number of notify callbacks while sessions are torn down
MaxSessRaw == 1
\* number of notify callbacks, and of connections, when progress is checked
MaxLiveRaw == 2
NLive == 1
\* number of notify callbacks when suppression is checked
MaxQuietRaw == 3
\* number of notify callbacks when the raw-kind filter is exercised
MaxKindRaw == 2
\* number of notify callbacks when a write fails
MaxFailRaw == 2
\* number of notify callbacks made while a session is about to lag
MaxLagRaw == 1
\* number of notify callbacks when the existence check fails
MaxStatRaw == 2
\* number of notify callbacks when any raw event may arrive
MaxAnyRaw == 2
\* number of notify callbacks while an observer sends messages
MaxInboundRaw == 2
\* number of notify callbacks naming two paths
MaxMultiRaw == 2
\* number of notify callbacks made while the raw queue is nearly full
MaxQueueRaw == 4
\* number of notify callbacks during and after startup
MaxBootRaw == 2
\* number of notify callbacks when the order of delivery is checked
MaxOrderRaw == 3
\* number of notify callbacks made on top of a full backlog
MaxBacklogRaw == 1

(***************************************************************************)
(* Program constants.                                                      *)
(***************************************************************************)
\* Duration::from_millis(100)
DebounceMs == 100
\* tokio::sync::mpsc::channel(100)
WatchQueueCap == 100
\* broadcast::channel::<FileEvent>(100)
BroadcastCap == 100

None == "none"

(***************************************************************************)
(* State.                                                                  *)
(***************************************************************************)
VARIABLES
  now,          \* the monotonic clock read by Instant::now(), in ms
  exists,       \* the paths that exist on disk (path.exists())
  callbacks,    \* number of notify callbacks made so far
  watch_q,      \* the mpsc channel watch_tx -> watch_rx
  cur_kind,     \* event.kind of the event the debounce loop received last
  cur_paths,    \* event.paths of that event
  cur_idx,      \* index in cur_paths of the path the for loop takes next
  last_events,  \* the debounce map: filename -> (kind, time)
  published,    \* every event accepted by tx_clone.send, oldest first
  run,          \* history: per filename, the current run of notifications
                \* of one effective kind, each with its raw kind, its
                \* time and whether it was published
  hs,           \* handle_socket of each connection
  send_task,    \* the outbound half of each session
  recv_task,    \* the inbound half of each session
  aborted,      \* the halves whose JoinHandle::abort() has been called
  conn,         \* the observer's end of each connection
  subs,         \* the sessions whose broadcast Receiver is alive
  sub_at,       \* history: number of events published when rx was created
  next_pos,     \* number of published events rx has moved past
  delivered,    \* history: positions of the events rx.recv() returned
  wire,         \* the messages written to the observer
  inbound,      \* number of inbound messages read from the observer
  watcher,      \* how far the spawned watcher task has come
  server,       \* how far main has come
  unreadable,   \* the paths whose metadata cannot be read
  reported,     \* history: number of Ok results the callback handled
  taken         \* history: number of events watch_rx.recv() returned

engine_vars == <<callbacks, watch_q, cur_kind, cur_paths, cur_idx, last_events,
                 run, reported, taken>>
env_vars == <<now, exists, unreadable>>
boot_vars == <<watcher, server>>
session_vars == <<hs, send_task, recv_task, aborted, conn, subs, sub_at,
                  next_pos, delivered, wire, inbound>>
vars == <<now, exists, callbacks, watch_q, cur_kind, cur_paths, cur_idx,
          last_events,
          published, run, hs, send_task, recv_task, aborted, conn, subs,
          sub_at, next_pos, delivered, wire, inbound, watcher, server,
          unreadable, reported, taken>>

(***************************************************************************)
(* Paths.  A path is a sequence of characters; "BAD" stands for a byte     *)
(* sequence that is not valid UTF-8.                                       *)
(***************************************************************************)
SceneDir == <<"s", "/">>
PathA == SceneDir \o <<"a", ".", "o", "b", "j">>
PathB == SceneDir \o <<"b", ".", "o", "b", "j">>
PathTxt == SceneDir \o <<"n", ".", "t", "x", "t">>
PathUpper == SceneDir \o <<"a", ".", "O", "B", "J">>
PathNoDot == SceneDir \o <<"o", "b", "j">>
PathDotDot == SceneDir \o <<".", ".">>
PathBad == SceneDir \o <<"BAD", ".", "o", "b", "j">>

TrackedPaths == {PathA, PathB}
UntrackedPaths == {PathTxt, PathUpper, PathNoDot}
NamelessPaths == {PathDotDot, PathBad}
DiskPaths == TrackedPaths \cup UntrackedPaths

ObjSuffix == <<".", "o", "b", "j">>

RawKinds == {"Create", "Modify", "Remove", "Other"}

\* index of the last "/" of a path, 0 when there is none
RECURSIVE LastSlash(_, _)
LastSlash(path, i) ==
  IF i = 0 THEN 0
  ELSE IF path[i] = "/" THEN i ELSE LastSlash(path, i - 1)

\* the None of an Option<&str> holding a file name
NoName == <<>>

\* a name taken with to_string_lossy(): bytes that are not UTF-8 are kept,
\* replaced, instead of giving None
FileNameLossy(path) ==
  LET comp == SubSeq(path, LastSlash(path, Len(path)) + 1, Len(path))
  IN IF comp = <<>> \/ comp = <<".", ".">> THEN NoName ELSE comp

\* path.file_name().and_then(|n| n.to_str())
FileName(path) ==
  LET comp == SubSeq(path, LastSlash(path, Len(path)) + 1, Len(path))
  IN IF comp = <<>> \/ comp = <<".", ".">> THEN NoName
     ELSE IF \E i \in 1..Len(comp) : comp[i] = "BAD" THEN NoName
     ELSE comp

\* a suffix test that ignores the case of the letters
FoldCase(c) ==
  CASE c = "O" -> "o" [] c = "B" -> "b" [] c = "J" -> "j" [] OTHER -> c
EndsWithIgnoreCase(name, suffix) ==
  /\ Len(name) >= Len(suffix)
  /\ \A i \in 1..Len(suffix) :
       FoldCase(name[Len(name) - Len(suffix) + i]) = suffix[i]

\* file_name.ends_with(".obj")
EndsWith(name, suffix) ==
  /\ Len(name) >= Len(suffix)
  /\ SubSeq(name, Len(name) - Len(suffix) + 1, Len(name)) = suffix

\* a match whose last arm takes every other kind for a modification
EventKindStrCatchAll(kind) ==
  CASE kind = "Create" -> "create"
    [] kind = "Remove" -> "remove"
    [] OTHER -> "modify"

\* match event.kind { Create => "create", Modify => "modify",
\*                    Remove => "remove", _ => continue }
EventKindStr(kind) ==
  CASE kind = "Create" -> "create"
    [] kind = "Modify" -> "modify"
    [] kind = "Remove" -> "remove"
    [] OTHER -> None

\* a reconciliation that trusts the raw kind whether or not the file exists
ActualEventKindRaw(file_exists, event_kind_str) == event_kind_str

\* a reconciliation that drops a remove notification for a file that is
\* still there, as the comment above the code has it
ActualEventKindIgnoreStale(file_exists, event_kind_str) ==
  IF ~file_exists THEN "remove"
  ELSE IF event_kind_str = "remove" THEN None
  ELSE event_kind_str

\* let actual_event_kind = if !file_exists { "remove" } else { event_kind_str }
ActualEventKind(file_exists, event_kind_str) ==
  IF ~file_exists THEN "remove" ELSE event_kind_str

\* a comparison that lets a notification through at exactly 100 ms
WindowElapsedInclusive(lt, t) == t - lt >= DebounceMs

\* now.duration_since(*lt) > debounce_duration
WindowElapsed(lt, t) == t - lt > DebounceMs

\* a sliding window: the elapsed time is counted from the last notification
\* for the filename, published or not
ShouldSendSliding(records, file_name, actual_event_kind, t) ==
  IF file_name \in DOMAIN records
  THEN \/ records[file_name].kind # actual_event_kind
       \/ WindowElapsed(
            run[file_name].seen[Len(run[file_name].seen)].time, t)
  ELSE TRUE

\* a loop without debounce
ShouldSendAlways(records, file_name, actual_event_kind, t) == TRUE

\* a decision that looks at the window only, whatever the kinds
ShouldSendWindowOnly(records, file_name, actual_event_kind, t) ==
  IF file_name \in DOMAIN records
  THEN WindowElapsed(records[file_name].time, t)
  ELSE TRUE

\* let should_send = if let Some((lk, lt)) = last_events.get(file_name)
\*   { lk != actual_event_kind || elapsed > debounce } else { true }
ShouldSend(records, file_name, actual_event_kind, t) ==
  IF file_name \in DOMAIN records
  THEN \/ records[file_name].kind # actual_event_kind
       \/ WindowElapsed(records[file_name].time, t)
  ELSE TRUE

\* enum FileEvent { Added, Modified, Removed }: the variant names
Added == <<"A", "d", "d", "e", "d">>
Modified == <<"M", "o", "d", "i", "f", "i", "e", "d">>
Removed == <<"R", "e", "m", "o", "v", "e", "d">>

\* the if / else-if chain that builds change_event: an Option<FileEvent>,
\* <<>> for None and <<e>> for Some(e)
ChangeEvent(actual_event_kind, file_exists, file_name) ==
  IF actual_event_kind = "remove"
  THEN <<[variant |-> Removed, filename |-> file_name]>>
  ELSE IF actual_event_kind = "create" /\ file_exists
  THEN <<[variant |-> Added, filename |-> file_name]>>
  ELSE IF actual_event_kind = "modify" /\ file_exists
  THEN <<[variant |-> Modified, filename |-> file_name]>>
  ELSE <<>>

\* serde's rename_all = "snake_case" on a variant name: an upper-case letter
\* becomes its lower-case letter, preceded by "_" unless it is the first
UpperCase == {"A", "M", "R"}
LowerCase(c) ==
  CASE c = "A" -> "a" [] c = "M" -> "m" [] c = "R" -> "r" [] OTHER -> c
RECURSIVE SnakeCase(_, _)
SnakeCase(name, i) ==
  IF i > Len(name) THEN <<>>
  ELSE (IF name[i] \in UpperCase /\ i > 1 THEN <<"_">> ELSE <<>>)
       \o <<LowerCase(name[i])>> \o SnakeCase(name, i + 1)

\* a serialisation whose tags carry the prefix the viewer expects
SerializePrefixed(event) ==
  [type |-> <<"f", "i", "l", "e", "_">> \o SnakeCase(event.variant, 1),
   filename |-> event.filename]

\* serde_json::to_string(&event) under #[serde(tag = "type")]
Serialize(event) ==
  [type |-> SnakeCase(event.variant, 1), filename |-> event.filename]

\* the viewer's ws.onmessage: the `case` label of switch(msg.type) under
\* which it loads, reloads or removes a mesh
ViewerCase(variant) ==
  <<"f", "i", "l", "e", "_">> \o
  (CASE variant = Added -> <<"a", "d", "d", "e", "d">>
     [] variant = Modified -> <<"m", "o", "d", "i", "f", "i", "e", "d">>
     [] variant = Removed -> <<"r", "e", "m", "o", "v", "e", "d">>)

\* the labels of that switch, which has no default branch: a message with
\* any other type is logged and dropped
ViewerCases == {ViewerCase(v) : v \in {Added, Modified, Removed}}

\* a map that keeps the first record of a filename, as entry().or_insert()
\* would
RecordInsertOnce(records, file_name, actual_event_kind, t) ==
  [f \in DOMAIN records \cup {file_name} |->
     IF f \in DOMAIN records THEN records[f]
     ELSE [kind |-> actual_event_kind, time |-> t]]

\* a map that forgets a filename once its removal has been published
RecordForgetRemoved(records, file_name, actual_event_kind, t) ==
  IF actual_event_kind = "remove"
  THEN [f \in DOMAIN records \ {file_name} |-> records[f]]
  ELSE [f \in DOMAIN records \cup {file_name} |->
          IF f = file_name THEN [kind |-> actual_event_kind, time |-> t]
          ELSE records[f]]

\* last_events.insert(file_name, (actual_event_kind, now)), made in each of
\* the three branches that build an event
RecordInsert(records, file_name, actual_event_kind, t) ==
  [f \in DOMAIN records \cup {file_name} |->
     IF f = file_name THEN [kind |-> actual_event_kind, time |-> t]
     ELSE records[f]]


Sessions == 1..NSessions

\* the amounts by which the clock advances between two observations
TickSteps == {50, 51}

\* the raw events the watch source reports
SinglePathEvents ==
  {[kind |-> k, paths |-> <<p>>] :
     k \in RawKinds, p \in TrackedPaths \cup UntrackedPaths \cup NamelessPaths}
RenameEvents ==
  {[kind |-> "Modify", paths |-> <<PathA, PathB>>],
   [kind |-> "Modify", paths |-> <<PathTxt, PathA>>]}
RawEvents == SinglePathEvents \cup RenameEvents

(***************************************************************************)
(* The broadcast hub (tokio::sync::broadcast).                             *)
(***************************************************************************)
\* receivers alive: `_rx` of main, never dropped while the server runs, and
\* the rx of every session
RxCount == 1 + Cardinality(subs)

\* a publisher that hands each event to every subscriber in turn and waits
\* for the subscriber's write
SendBlocksWhileWriting == \E s \in subs : send_task[s] = "write"

\* a publisher that waits while some subscriber's backlog is full
SendBlocksWhenFull ==
  \E s \in subs : Len(published) - next_pos[s] >= BroadcastCap

\* tx_clone.send(evt): a synchronous call that never waits for a receiver
SendBlocks == FALSE

\* tx_clone.send(evt): the value is stored unless no receiver is alive
BroadcastSend(evt) ==
  IF RxCount = 0 THEN published ELSE Append(published, evt)

(***************************************************************************)
(* The environment: the clock and the scene directory.                     *)
(***************************************************************************)
Tick(d) ==
  /\ now' = now + d
  /\ UNCHANGED <<boot_vars, exists, unreadable, engine_vars, published,
                 session_vars>>

FsCreate(p) ==
  /\ p \notin exists
  /\ exists' = exists \cup {p}
  /\ UNCHANGED <<boot_vars, now, unreadable, engine_vars, published,
                 session_vars>>

FsDelete(p) ==
  /\ p \in exists
  /\ exists' = exists \ {p}
  /\ UNCHANGED <<boot_vars, now, unreadable, engine_vars, published,
                 session_vars>>

\* the metadata of p can no longer be read: permission is taken away
FsDeny(p) ==
  /\ p \in exists
  /\ p \notin unreadable
  /\ unreadable' = unreadable \cup {p}
  /\ UNCHANGED <<boot_vars, now, exists, engine_vars, published,
                 session_vars>>

\* path.exists(): true when the metadata can be read, false when the path
\* is absent and also when reading its metadata fails
PathExists(path) == path \in exists /\ path \notin unreadable

(***************************************************************************)
(* The watch source: the closure given to notify::recommended_watcher.     *)
(***************************************************************************)
\* a callback that uses try_send: when the queue is full the event is lost
WatcherCallbackTrySend(ev) ==
  /\ watcher = "watching"
  /\ callbacks' = callbacks + 1
  /\ reported' = reported + 1
  /\ watch_q' = IF Len(watch_q) < WatchQueueCap THEN Append(watch_q, ev)
                ELSE watch_q
  /\ UNCHANGED <<boot_vars, env_vars, taken,
                 cur_kind, cur_paths, cur_idx, last_events, run,
                 published, session_vars>>

\* if let Ok(event) = res { let _ = watch_tx.blocking_send(event); }
WatcherCallback(ev) ==
  /\ watcher = "watching"
  /\ Len(watch_q) < WatchQueueCap
  /\ callbacks' = callbacks + 1
  /\ reported' = reported + 1
  /\ watch_q' = Append(watch_q, ev)
  /\ UNCHANGED <<boot_vars, env_vars, taken,
                 cur_kind, cur_paths, cur_idx, last_events, run,
                 published, session_vars>>

\* res is Err: nothing is sent
WatcherError ==
  /\ watcher = "watching"
  /\ callbacks' = callbacks + 1
  /\ UNCHANGED <<boot_vars, env_vars, reported, taken,
                 watch_q, cur_kind, cur_paths, cur_idx, last_events,
                 run, published, session_vars>>

(***************************************************************************)
(* The debounce loop.                                                      *)
(***************************************************************************)
\* a for loop that leaves after the first path of an event
LoopIdleAfterFirst == cur_idx > Len(cur_paths) \/ cur_idx > 1

\* the for loop over event.paths has finished
LoopIdle == cur_idx > Len(cur_paths)

\* while let Some(event) = watch_rx.recv().await
EngineRecv ==
  /\ watcher = "watching"
  /\ LoopIdle
  /\ watch_q # <<>>
  /\ cur_kind' = Head(watch_q).kind
  /\ cur_paths' = Head(watch_q).paths
  /\ cur_idx' = 1
  /\ watch_q' = Tail(watch_q)
  /\ taken' = taken + 1
  /\ UNCHANGED <<boot_vars, env_vars, callbacks, reported, last_events, run,
                 published, session_vars>>

\* history: the notification joins the filename's run of its effective
\* kind, or starts a new run
RunAfter(file_name, raw, kind, t, sent) ==
  LET entry == [raw |-> raw, time |-> t, sent |-> sent]
      old == IF file_name \in DOMAIN run /\ run[file_name].kind = kind
             THEN run[file_name].seen ELSE <<>>
  IN [f \in DOMAIN run \cup {file_name} |->
        IF f = file_name THEN [kind |-> kind, seen |-> Append(old, entry)]
        ELSE run[f]]

\* one iteration of `for path in event.paths`
EngineStep ==
  /\ watcher = "watching"
  /\ ~LoopIdle
  /\ cur_idx' = cur_idx + 1
  /\ LET path == cur_paths[cur_idx]
         file_name == FileName(path)
         file_exists == PathExists(path)
         event_kind_str == EventKindStr(cur_kind)
         actual_event_kind == ActualEventKind(file_exists, event_kind_str)
         should_send ==
           ShouldSend(last_events, file_name, actual_event_kind, now)
         change_event == ChangeEvent(actual_event_kind, file_exists, file_name)
     IN IF \/ file_name = NoName
           \/ ~EndsWith(file_name, ObjSuffix)
           \/ event_kind_str = None
        THEN UNCHANGED <<last_events, published, run>>
        ELSE IF should_send /\ change_event # <<>>
        THEN /\ ~SendBlocks
             /\ last_events' =
                  RecordInsert(last_events, file_name, actual_event_kind, now)
             /\ published' = BroadcastSend(change_event[1])
             /\ run' = RunAfter(file_name, cur_kind, actual_event_kind, now,
                                published' # published)
        ELSE /\ run' = RunAfter(file_name, cur_kind, actual_event_kind, now,
                                FALSE)
             /\ UNCHANGED <<last_events, published>>
  /\ UNCHANGED <<boot_vars, env_vars, callbacks, reported, taken, watch_q,
                 cur_kind, cur_paths, session_vars>>

(***************************************************************************)
(* A session: handle_socket and the two tasks it spawns.                   *)
(***************************************************************************)
\* a Receiver that only sees the newest value, as a watch channel's does
RxRecvLatest(pos, tail) ==
  IF pos < tail THEN [tag |-> "ok", pos |-> tail]
  ELSE [tag |-> "pending", pos |-> pos]

\* a ring buffer that overwrites silently: a Receiver that fell behind is
\* handed the oldest value still held, without an error
RxRecvOverwrite(pos, tail) ==
  IF tail - pos > BroadcastCap
  THEN [tag |-> "ok", pos |-> tail - BroadcastCap + 1]
  ELSE IF pos < tail THEN [tag |-> "ok", pos |-> pos + 1]
  ELSE [tag |-> "pending", pos |-> pos]

\* rx.recv() on a Receiver that has moved past `pos` of `tail` values
RxRecv(pos, tail) ==
  IF tail - pos > BroadcastCap THEN [tag |-> "lagged", pos |-> tail - BroadcastCap]
  ELSE IF pos < tail THEN [tag |-> "ok", pos |-> pos + 1]
  ELSE [tag |-> "pending", pos |-> pos]

\* a subscription that replays what the channel still holds
SubscribeFromOldest ==
  IF Len(published) > BroadcastCap THEN Len(published) - BroadcastCap ELSE 0

\* tx.subscribe(): the new Receiver starts at the current tail
SubscribePos == Len(published)

\* a hub that closes for everyone when one Receiver is dropped
ReleaseRxAll(s) == {}

\* a hub that keeps a dropped Receiver registered
ReleaseRxLeak(s) == subs

\* rx is owned by send_task's future and is dropped with it
ReleaseRx(s) == subs \ {s}

\* socket.split(), tx.subscribe() and the two tokio::spawn calls
Connect(s) ==
  /\ server = "serving"
  /\ hs[s] = "idle"
  /\ hs' = [hs EXCEPT ![s] = "select"]
  /\ conn' = [conn EXCEPT ![s] = "up"]
  /\ subs' = subs \cup {s}
  /\ sub_at' = [sub_at EXCEPT ![s] = Len(published)]
  /\ next_pos' = [next_pos EXCEPT ![s] = SubscribePos]
  /\ send_task' = [send_task EXCEPT ![s] = "recv"]
  /\ recv_task' = [recv_task EXCEPT ![s] = "read"]
  /\ UNCHANGED <<boot_vars, env_vars,
                 engine_vars, published, aborted, delivered, wire,
                 inbound>>

\* send_task: while let Ok(event) = rx.recv().await
SendTaskRecv(s) ==
  /\ send_task[s] = "recv"
  /\ LET r == RxRecv(next_pos[s], Len(published))
     IN /\ r.tag # "pending"
        /\ next_pos' = [next_pos EXCEPT ![s] = r.pos]
        /\ IF r.tag = "ok"
           THEN /\ delivered' = [delivered EXCEPT ![s] = Append(@, r.pos)]
                /\ send_task' = [send_task EXCEPT ![s] = "write"]
                /\ subs' = subs
           ELSE /\ send_task' = [send_task EXCEPT ![s] = "done"]
                /\ subs' = ReleaseRx(s)
                /\ delivered' = delivered
  /\ UNCHANGED <<boot_vars, env_vars,
                 engine_vars, published, hs, recv_task, aborted,
                 conn, sub_at, wire, inbound>>

\* an outbound buffer that puts the newest message in front of the others
SendTaskWriteFront(s) ==
  /\ send_task[s] = "write"
  /\ conn[s] = "up"
  /\ wire' = [wire EXCEPT ![s] = <<Serialize(published[next_pos[s]])>> \o @]
  /\ send_task' = [send_task EXCEPT ![s] = "recv"]
  /\ UNCHANGED <<boot_vars, env_vars,
                 engine_vars, published, hs, recv_task, aborted,
                 conn, subs, sub_at, next_pos, delivered, inbound>>

\* send_task: sender.send(Message::Text(json)).await is Ok
SendTaskWriteOk(s) ==
  /\ send_task[s] = "write"
  /\ conn[s] = "up"
  /\ wire' = [wire EXCEPT ![s] = Append(@, Serialize(published[next_pos[s]]))]
  /\ send_task' = [send_task EXCEPT ![s] = "recv"]
  /\ UNCHANGED <<boot_vars, env_vars,
                 engine_vars, published, hs, recv_task, aborted,
                 conn, subs, sub_at, next_pos, delivered, inbound>>

\* send_task: sender.send(..).await.is_err() => break
SendTaskWriteErr(s) ==
  /\ send_task[s] = "write"
  /\ conn[s] = "down"
  /\ send_task' = [send_task EXCEPT ![s] = "done"]
  /\ subs' = ReleaseRx(s)
  /\ UNCHANGED <<boot_vars, env_vars,
                 engine_vars, published, hs, recv_task, aborted,
                 conn, sub_at, next_pos, delivered, wire, inbound>>

\* a read loop that stops at the first message it is given
RecvTaskMsgEnds(s) ==
  /\ recv_task[s] = "read"
  /\ conn[s] # "down"
  /\ inbound' = [inbound EXCEPT ![s] = @ + 1]
  /\ recv_task' = [recv_task EXCEPT ![s] = "done"]
  /\ UNCHANGED <<boot_vars, env_vars, engine_vars, published, hs, send_task,
                 aborted, conn, subs, sub_at, next_pos, delivered, wire>>

\* recv_task: receiver.next().await is Some(Ok(_msg))
RecvTaskMsg(s) ==
  /\ recv_task[s] = "read"
  /\ conn[s] # "down"
  /\ inbound' = [inbound EXCEPT ![s] = @ + 1]
  /\ UNCHANGED <<boot_vars, env_vars,
                 engine_vars, published, hs, send_task, recv_task,
                 aborted, conn, subs, sub_at, next_pos, delivered, wire>>

\* recv_task: receiver.next().await is None or Some(Err(_))
RecvTaskEnd(s) ==
  /\ recv_task[s] = "read"
  /\ conn[s] = "down"
  /\ recv_task' = [recv_task EXCEPT ![s] = "done"]
  /\ UNCHANGED <<boot_vars, env_vars,
                 engine_vars, published, hs, send_task, aborted,
                 conn, subs, sub_at, next_pos, delivered, wire, inbound>>

\* recv_task: receiver.next().await is Some(Ok(Message::Close(_))): the
\* body of the loop is empty for this message as for any other, and the
\* stream has nothing after it
RecvTaskClose(s) ==
  /\ recv_task[s] = "read"
  /\ conn[s] = "closing"
  /\ inbound' = [inbound EXCEPT ![s] = @ + 1]
  /\ conn' = [conn EXCEPT ![s] = "down"]
  /\ UNCHANGED <<boot_vars, env_vars, engine_vars, published, hs, send_task,
                 recv_task, aborted, subs, sub_at, next_pos, delivered, wire>>

\* the observer sends a close frame
ClientClose(s) ==
  /\ conn[s] = "up"
  /\ conn' = [conn EXCEPT ![s] = "closing"]
  /\ UNCHANGED <<boot_vars, env_vars, engine_vars, published, hs, send_task,
                 recv_task, aborted, subs, sub_at, next_pos, delivered, wire,
                 inbound>>

\* the observer closes or loses the connection
ClientDisconnect(s) ==
  /\ conn[s] \in {"up", "stalled"}
  /\ conn' = [conn EXCEPT ![s] = "down"]
  /\ UNCHANGED <<boot_vars, env_vars,
                 engine_vars, published, hs, send_task, recv_task,
                 aborted, subs, sub_at, next_pos, delivered, wire, inbound>>

\* the observer stops reading: writes to it no longer complete
ClientStall(s) ==
  /\ conn[s] = "up"
  /\ conn' = [conn EXCEPT ![s] = "stalled"]
  /\ UNCHANGED <<boot_vars, env_vars,
                 engine_vars, published, hs, send_task, recv_task,
                 aborted, subs, sub_at, next_pos, delivered, wire, inbound>>

\* the observer reads again: pending writes complete
ClientResume(s) ==
  /\ conn[s] = "stalled"
  /\ conn' = [conn EXCEPT ![s] = "up"]
  /\ UNCHANGED <<boot_vars, env_vars,
                 engine_vars, published, hs, send_task, recv_task,
                 aborted, subs, sub_at, next_pos, delivered, wire, inbound>>

Running(task) == task \in {"recv", "write", "read"}

\* a select! whose branches do not abort the other task
AbortNothing(half, s) == {}

\* JoinHandle::abort(): a request; the task is cancelled later
AbortRequested(half, s) ==
  IF half = "send" /\ Running(send_task[s]) THEN {<<s, "send">>}
  ELSE IF half = "recv" /\ Running(recv_task[s]) THEN {<<s, "recv">>}
  ELSE {}

\* tokio::select! { _ = &mut send_task => recv_task.abort(),
\*                  _ = &mut recv_task => send_task.abort() }
\* after which handle_socket returns
Select(s) ==
  /\ hs[s] = "select"
  /\ \/ /\ send_task[s] = "done"
        /\ aborted' = aborted \cup AbortRequested("recv", s)
     \/ /\ recv_task[s] = "done"
        /\ aborted' = aborted \cup AbortRequested("send", s)
  /\ hs' = [hs EXCEPT ![s] = "closed"]
  /\ UNCHANGED <<boot_vars, env_vars,
                 engine_vars, published, send_task, recv_task,
                 conn, subs, sub_at, next_pos, delivered, wire, inbound>>

\* the runtime cancels an aborted send_task: its future, and rx in it, drop
CancelSend(s) ==
  /\ <<s, "send">> \in aborted
  /\ Running(send_task[s])
  /\ send_task' = [send_task EXCEPT ![s] = "cancelled"]
  /\ subs' = ReleaseRx(s)
  /\ UNCHANGED <<boot_vars, env_vars,
                 engine_vars, published, hs, recv_task, aborted,
                 conn, sub_at, next_pos, delivered, wire, inbound>>

\* the runtime cancels an aborted recv_task
CancelRecv(s) ==
  /\ <<s, "recv">> \in aborted
  /\ Running(recv_task[s])
  /\ recv_task' = [recv_task EXCEPT ![s] = "cancelled"]
  /\ UNCHANGED <<boot_vars, env_vars,
                 engine_vars, published, hs, send_task, aborted,
                 conn, subs, sub_at, next_pos, delivered, wire, inbound>>

(***************************************************************************)
(* Startup.  main spawns the watcher task, then binds the listener and     *)
(* serves; the spawned task creates the watcher, attaches it to the scene  *)
(* directory and enters the debounce loop.  The two run concurrently.      *)
(***************************************************************************)
\* what a panic in a spawned task does depends on the build's panic
\* strategy: it ends the task ("unwind", the default) or the process
\* ("abort")
PanicOutcomes == {"unwind", "abort"}

\* .expect("Failed to create file watcher") on "spawned" and
\* .expect("Failed to watch scene directory") on "created": the call
\* returned Err
WatcherPanic(at, outcome) ==
  /\ watcher = at
  /\ IF outcome = "unwind"
     THEN watcher' = "panicked" /\ server' = server
     ELSE watcher' = "killed" /\ server' = "exited"
  /\ UNCHANGED <<env_vars, engine_vars, published, session_vars>>

\* notify::recommended_watcher(..) is Ok
WatcherCreateOk ==
  /\ watcher = "spawned"
  /\ watcher' = "created"
  /\ UNCHANGED <<server, env_vars, engine_vars, published, session_vars>>

\* watcher.watch(&scene_dir_for_watcher, NonRecursive) is Ok
WatcherAttachOk ==
  /\ watcher = "created"
  /\ watcher' = "watching"
  /\ UNCHANGED <<server, env_vars, engine_vars, published, session_vars>>

\* TcpListener::bind(&addr).await is Ok
ServerBindOk ==
  /\ server = "init"
  /\ server' = "bound"
  /\ UNCHANGED <<watcher, env_vars, engine_vars, published, session_vars>>

\* TcpListener::bind(&addr).await.unwrap() panics in main: the process ends
ServerBindErr ==
  /\ server = "init"
  /\ server' = "exited"
  /\ watcher' = "killed"
  /\ UNCHANGED <<env_vars, engine_vars, published, session_vars>>

\* axum::serve(listener, app): connections are accepted from here on
ServerServe ==
  /\ server = "bound"
  /\ server' = "serving"
  /\ UNCHANGED <<watcher, env_vars, engine_vars, published, session_vars>>

(***************************************************************************)
(* The system.                                                             *)
(***************************************************************************)
Init ==
  /\ now = 0
  /\ exists = {}
  /\ unreadable = {}
  /\ callbacks = 0
  /\ reported = 0
  /\ taken = 0
  /\ watch_q = <<>>
  /\ cur_kind = None
  /\ cur_paths = <<>>
  /\ cur_idx = 1
  /\ last_events = <<>>
  /\ published = <<>>
  /\ run = <<>>
  /\ hs = [s \in Sessions |-> "idle"]
  /\ send_task = [s \in Sessions |-> None]
  /\ recv_task = [s \in Sessions |-> None]
  /\ aborted = {}
  /\ conn = [s \in Sessions |-> None]
  /\ subs = {}
  /\ sub_at = [s \in Sessions |-> 0]
  /\ next_pos = [s \in Sessions |-> 0]
  /\ delivered = [s \in Sessions |-> <<>>]
  /\ wire = [s \in Sessions |-> <<>>]
  /\ inbound = [s \in Sessions |-> 0]
  /\ watcher = "watching"
  /\ server = "serving"

EnvNext ==
  \/ \E d \in TickSteps : now + d <= MaxTime /\ Tick(d)
  \/ \E p \in TrackedPaths : FsCreate(p)
  \/ \E p \in TrackedPaths : FsDelete(p)
  \/ \E p \in TrackedPaths : FsDeny(p)

WatcherNext ==
  \/ \E ev \in RawEvents : callbacks < MaxRaw /\ WatcherCallback(ev)
  \/ callbacks < MaxRaw /\ WatcherError

SessionNext ==
  \/ \E s \in Sessions : Connect(s)
  \/ \E s \in Sessions : SendTaskRecv(s)
  \/ \E s \in Sessions : SendTaskWriteOk(s)
  \/ \E s \in Sessions : SendTaskWriteErr(s)
  \/ \E s \in Sessions : inbound[s] < MaxInbound /\ RecvTaskMsg(s)
  \/ \E s \in Sessions : RecvTaskClose(s)
  \/ \E s \in Sessions : RecvTaskEnd(s)
  \/ \E s \in Sessions : ClientClose(s)
  \/ \E s \in Sessions : ClientDisconnect(s)
  \/ \E s \in Sessions : ClientStall(s)
  \/ \E s \in Sessions : ClientResume(s)
  \/ \E s \in Sessions : Select(s)
  \/ \E s \in Sessions : CancelSend(s)
  \/ \E s \in Sessions : CancelRecv(s)

Next ==
  \/ EnvNext
  \/ WatcherNext
  \/ EngineRecv
  \/ EngineStep
  \/ SessionNext

Spec == Init /\ [][Next]_vars

(***************************************************************************)
(* The debounce loop on one tracked file: create, modify and remove        *)
(* notifications for a.obj while the file comes and goes and the clock     *)
(* advances.  No observer connects.                                        *)
(***************************************************************************)
EngineEvents ==
  {[kind |-> k, paths |-> <<PathA>>] : k \in {"Create", "Modify", "Remove"}}

EngineNext ==
  \/ \E d \in TickSteps : now + d <= MaxTime /\ Tick(d)
  \/ FsCreate(PathA)
  \/ FsDelete(PathA)
  \/ \E ev \in EngineEvents : callbacks < MaxRaw /\ WatcherCallback(ev)
  \/ EngineRecv
  \/ EngineStep

SpecEngine == Init /\ [][EngineNext]_vars

(***************************************************************************)
(* The filters of the debounce loop: notifications of every raw kind for   *)
(* untracked names, beside create notifications for a tracked file.        *)
(***************************************************************************)
FilterEvents ==
  {[kind |-> k, paths |-> <<p>>] : k \in RawKinds, p \in UntrackedPaths}
  \cup {[kind |-> "Create", paths |-> <<PathA>>]}

FilterNext ==
  \/ \E p \in {PathA, PathTxt} : FsCreate(p)
  \/ \E p \in {PathA, PathTxt} : FsDelete(p)
  \/ \E ev \in FilterEvents : callbacks < MaxFilterRaw /\ WatcherCallback(ev)
  \/ EngineRecv
  \/ EngineStep

SpecFilter == Init /\ [][FilterNext]_vars

(***************************************************************************)
(* The hub with observers that stay connected: a.obj exists and is created *)
(* and modified in turn, so that each notification of a new kind publishes *)
(* an event, while observers connect and read.                             *)
(***************************************************************************)
InitHub ==
  /\ now = 0
  /\ exists = {PathA}
  /\ unreadable = {}
  /\ callbacks = 0
  /\ reported = 0
  /\ taken = 0
  /\ watch_q = <<>>
  /\ cur_kind = None
  /\ cur_paths = <<>>
  /\ cur_idx = 1
  /\ last_events = <<>>
  /\ published = <<>>
  /\ run = <<>>
  /\ hs = [s \in Sessions |-> "idle"]
  /\ send_task = [s \in Sessions |-> None]
  /\ recv_task = [s \in Sessions |-> None]
  /\ aborted = {}
  /\ conn = [s \in Sessions |-> None]
  /\ subs = {}
  /\ sub_at = [s \in Sessions |-> 0]
  /\ next_pos = [s \in Sessions |-> 0]
  /\ delivered = [s \in Sessions |-> <<>>]
  /\ wire = [s \in Sessions |-> <<>>]
  /\ inbound = [s \in Sessions |-> 0]
  /\ watcher = "watching"
  /\ server = "serving"

HubEvents ==
  {[kind |-> k, paths |-> <<PathA>>] : k \in {"Create", "Modify"}}

HubNext ==
  \/ \E ev \in HubEvents : callbacks < MaxHubRaw /\ WatcherCallback(ev)
  \/ EngineRecv
  \/ EngineStep
  \/ \E s \in Sessions : Connect(s)
  \/ \E s \in Sessions : SendTaskRecv(s)
  \/ \E s \in Sessions : SendTaskWriteOk(s)

SpecHub == InitHub /\ [][HubNext]_vars

(***************************************************************************)
(* The same, with two observers that may stop reading.  The runtime does   *)
(* stop while a task can make a step: the steps of the debounce loop and   *)
(* of the send_tasks are, together, weakly fair.  Nothing makes a stalled  *)
(* write complete.                                                         *)
(***************************************************************************)
StallSessions == {1, 2}

StallTasks ==
  \/ EngineRecv
  \/ EngineStep
  \/ \E s \in StallSessions : SendTaskRecv(s)
  \/ \E s \in StallSessions : SendTaskWriteOk(s)

StallNext ==
  \/ \E ev \in HubEvents : callbacks < MaxHubRaw /\ WatcherCallback(ev)
  \/ \E s \in StallSessions : Connect(s)
  \/ \E s \in StallSessions : ClientStall(s)
  \/ StallTasks

SpecStall == InitHub /\ [][StallNext]_vars /\ WF_vars(StallTasks)

(***************************************************************************)
(* Sessions from connection to teardown, with observers that stall and     *)
(* disconnect, beside one notification for a.obj.                          *)
(***************************************************************************)
SessEvents == {[kind |-> "Create", paths |-> <<PathA>>]}

SessNext ==
  \/ \E ev \in SessEvents : callbacks < MaxSessRaw /\ WatcherCallback(ev)
  \/ EngineRecv
  \/ EngineStep
  \/ \E s \in Sessions : Connect(s)
  \/ \E s \in Sessions : SendTaskRecv(s)
  \/ \E s \in Sessions : SendTaskWriteOk(s)
  \/ \E s \in Sessions : SendTaskWriteErr(s)
  \/ \E s \in Sessions : RecvTaskEnd(s)
  \/ \E s \in Sessions : ClientDisconnect(s)
  \/ \E s \in Sessions : ClientStall(s)
  \/ \E s \in Sessions : Select(s)
  \/ \E s \in Sessions : CancelSend(s)
  \/ \E s \in Sessions : CancelRecv(s)

SpecSess == Init /\ [][SessNext]_vars

(***************************************************************************)
(* Teardown under the runtime's scheduling: the runtime does not stop      *)
(* while a spawned task or a handle_socket can make a step or an aborted   *)
(* task is to be cancelled, so these steps are, together, weakly fair.     *)
(* The observer is not fair: it may never disconnect.                      *)
(***************************************************************************)
LiveSessions == 1..NLive

LiveTasks ==
  \/ EngineRecv
  \/ EngineStep
  \/ \E s \in LiveSessions : SendTaskRecv(s)
  \/ \E s \in LiveSessions : SendTaskWriteOk(s)
  \/ \E s \in LiveSessions : SendTaskWriteErr(s)
  \/ \E s \in LiveSessions : RecvTaskEnd(s)
  \/ \E s \in LiveSessions : Select(s)
  \/ \E s \in LiveSessions : CancelSend(s)
  \/ \E s \in LiveSessions : CancelRecv(s)

LiveNext ==
  \/ \E ev \in SessEvents : callbacks < MaxLiveRaw /\ WatcherCallback(ev)
  \/ \E s \in LiveSessions : Connect(s)
  \/ \E s \in LiveSessions : ClientDisconnect(s)
  \/ \E s \in LiveSessions : ClientStall(s)
  \/ LiveTasks

SpecLive == InitHub /\ [][LiveNext]_vars /\ WF_vars(LiveTasks)

(***************************************************************************)
(* A full backlog.  a.obj exists and has been created and modified in turn *)
(* BroadcastCap + 1 times at time 0; the first observer connected before   *)
(* the first of these events, received it, and stopped reading while it    *)
(* was being written: BroadcastCap events wait for it.  The observer may   *)
(* read again or disconnect, and further notifications arrive.             *)
(***************************************************************************)
Preloaded == BroadcastCap + 1

AlternatingEvent(i) ==
  [variant |-> IF i % 2 = 1 THEN Added ELSE Modified, filename |-> FileName(PathA)]

LastAlternatingKind == IF Preloaded % 2 = 1 THEN "Create" ELSE "Modify"

InitBacklog ==
  /\ now = 0
  /\ exists = {PathA}
  /\ unreadable = {}
  /\ callbacks = Preloaded
  /\ reported = Preloaded
  /\ taken = Preloaded
  /\ watch_q = <<>>
  /\ cur_kind = LastAlternatingKind
  /\ cur_paths = <<PathA>>
  /\ cur_idx = 2
  /\ last_events =
       [f \in {FileName(PathA)} |->
          [kind |-> EventKindStr(LastAlternatingKind), time |-> 0]]
  /\ published = [i \in 1..Preloaded |-> AlternatingEvent(i)]
  /\ run =
       [f \in {FileName(PathA)} |->
          [kind |-> EventKindStr(LastAlternatingKind),
           seen |-> <<[raw |-> LastAlternatingKind, time |-> 0,
                       sent |-> TRUE]>>]]
  /\ hs = [s \in Sessions |-> IF s = 1 THEN "select" ELSE "idle"]
  /\ send_task = [s \in Sessions |-> IF s = 1 THEN "write" ELSE None]
  /\ recv_task = [s \in Sessions |-> IF s = 1 THEN "read" ELSE None]
  /\ aborted = {}
  /\ conn = [s \in Sessions |-> IF s = 1 THEN "stalled" ELSE None]
  /\ subs = {1}
  /\ sub_at = [s \in Sessions |-> 0]
  /\ next_pos = [s \in Sessions |-> IF s = 1 THEN 1 ELSE 0]
  /\ delivered = [s \in Sessions |-> IF s = 1 THEN <<1>> ELSE <<>>]
  /\ wire = [s \in Sessions |-> <<>>]
  /\ inbound = [s \in Sessions |-> 0]
  /\ watcher = "watching"
  /\ server = "serving"

\* the observer that is behind
BacklogSessions == {1}

BacklogNext ==
  \/ \E ev \in HubEvents :
       callbacks < Preloaded + MaxBacklogRaw /\ WatcherCallback(ev)
  \/ EngineRecv
  \/ EngineStep
  \/ \E s \in BacklogSessions : SendTaskRecv(s)
  \/ \E s \in BacklogSessions : SendTaskWriteOk(s)
  \/ \E s \in BacklogSessions : SendTaskWriteErr(s)
  \/ \E s \in BacklogSessions : RecvTaskEnd(s)
  \/ \E s \in BacklogSessions : ClientDisconnect(s)
  \/ \E s \in BacklogSessions : ClientResume(s)
  \/ \E s \in BacklogSessions : Select(s)
  \/ \E s \in BacklogSessions : CancelSend(s)
  \/ \E s \in BacklogSessions : CancelRecv(s)

SpecBacklog == InitBacklog /\ [][BacklogNext]_vars

(***************************************************************************)
(* Two tracked files, both on disk: notifications of every kind for a.obj  *)
(* and of creation for b.obj, while two observers connect and read.        *)
(***************************************************************************)
InitOrder ==
  /\ now = 0
  /\ exists = {PathA, PathB}
  /\ unreadable = {}
  /\ callbacks = 0
  /\ reported = 0
  /\ taken = 0
  /\ watch_q = <<>>
  /\ cur_kind = None
  /\ cur_paths = <<>>
  /\ cur_idx = 1
  /\ last_events = <<>>
  /\ published = <<>>
  /\ run = <<>>
  /\ hs = [s \in Sessions |-> "idle"]
  /\ send_task = [s \in Sessions |-> None]
  /\ recv_task = [s \in Sessions |-> None]
  /\ aborted = {}
  /\ conn = [s \in Sessions |-> None]
  /\ subs = {}
  /\ sub_at = [s \in Sessions |-> 0]
  /\ next_pos = [s \in Sessions |-> 0]
  /\ delivered = [s \in Sessions |-> <<>>]
  /\ wire = [s \in Sessions |-> <<>>]
  /\ inbound = [s \in Sessions |-> 0]
  /\ watcher = "watching"
  /\ server = "serving"

OrderEvents ==
  {[kind |-> k, paths |-> <<PathA>>] : k \in {"Create", "Modify", "Remove"}}
    \cup {[kind |-> "Create", paths |-> <<PathB>>]}

OrderSessions == {1, 2}

OrderNext ==
  \/ \E ev \in OrderEvents : callbacks < MaxOrderRaw /\ WatcherCallback(ev)
  \/ EngineRecv
  \/ EngineStep
  \/ \E s \in OrderSessions : Connect(s)
  \/ \E s \in OrderSessions : SendTaskRecv(s)
  \/ \E s \in OrderSessions : SendTaskWriteOk(s)

SpecOrder == InitOrder /\ [][OrderNext]_vars

(***************************************************************************)
(* The process from its start: the watcher task has been spawned and main  *)
(* has not bound its listener yet.  a.obj is on disk.                      *)
(***************************************************************************)
InitBoot ==
  /\ now = 0
  /\ exists = {PathA}
  /\ unreadable = {}
  /\ callbacks = 0
  /\ reported = 0
  /\ taken = 0
  /\ watch_q = <<>>
  /\ cur_kind = None
  /\ cur_paths = <<>>
  /\ cur_idx = 1
  /\ last_events = <<>>
  /\ published = <<>>
  /\ run = <<>>
  /\ hs = [s \in Sessions |-> "idle"]
  /\ send_task = [s \in Sessions |-> None]
  /\ recv_task = [s \in Sessions |-> None]
  /\ aborted = {}
  /\ conn = [s \in Sessions |-> None]
  /\ subs = {}
  /\ sub_at = [s \in Sessions |-> 0]
  /\ next_pos = [s \in Sessions |-> 0]
  /\ delivered = [s \in Sessions |-> <<>>]
  /\ wire = [s \in Sessions |-> <<>>]
  /\ inbound = [s \in Sessions |-> 0]
  /\ watcher = "spawned"
  /\ server = "init"

BootNext ==
  \/ WatcherCreateOk
  \/ WatcherAttachOk
  \/ \E at \in {"spawned", "created"} : \E o \in PanicOutcomes :
       WatcherPanic(at, o)
  \/ ServerBindOk
  \/ ServerBindErr
  \/ ServerServe
  \/ \E ev \in HubEvents : callbacks < MaxBootRaw /\ WatcherCallback(ev)
  \/ EngineRecv
  \/ EngineStep
  \/ \E s \in Sessions : Connect(s)

SpecBoot == InitBoot /\ [][BootNext]_vars

(***************************************************************************)
(* The debounce loop with two tracked files, both on disk, whose creation  *)
(* and modification are reported again and again as time passes.           *)
(***************************************************************************)
QuietNext ==
  \/ \E d \in TickSteps : now + d <= MaxTime /\ Tick(d)
  \/ \E ev \in OrderEvents : callbacks < MaxQuietRaw /\ WatcherCallback(ev)
  \/ EngineRecv
  \/ EngineStep

SpecQuiet == InitOrder /\ [][QuietNext]_vars

(***************************************************************************)
(* The raw-kind filter: notifications of a kind other than Create, Modify  *)
(* and Remove, for one tracked path or for two, beside create              *)
(* notifications for a.obj, which is created and deleted meanwhile.        *)
(***************************************************************************)
KindEvents ==
  {[kind |-> "Other", paths |-> <<PathA>>],
   [kind |-> "Other", paths |-> <<PathA, PathB>>],
   [kind |-> "Create", paths |-> <<PathA>>]}

KindNext ==
  \/ FsCreate(PathA)
  \/ FsDelete(PathA)
  \/ \E ev \in KindEvents : callbacks < MaxKindRaw /\ WatcherCallback(ev)
  \/ EngineRecv
  \/ EngineStep

SpecKind == Init /\ [][KindNext]_vars

(***************************************************************************)
(* Two sessions, of which the first one's observer may go away, so that    *)
(* its write fails or its read ends, while the second one's observer keeps *)
(* reading.  The steps of the tasks and of handle_socket are, together,    *)
(* weakly fair; the observer is not.                                       *)
(***************************************************************************)
FailSessions == {1, 2}

FailTasks ==
  \/ EngineRecv
  \/ EngineStep
  \/ \E s \in FailSessions : SendTaskRecv(s)
  \/ \E s \in FailSessions : SendTaskWriteOk(s)
  \/ SendTaskWriteErr(1)
  \/ RecvTaskEnd(1)
  \/ Select(1)
  \/ CancelSend(1)
  \/ CancelRecv(1)

FailNext ==
  \/ \E ev \in HubEvents : callbacks < MaxFailRaw /\ WatcherCallback(ev)
  \/ \E s \in FailSessions : Connect(s)
  \/ ClientDisconnect(1)
  \/ FailTasks

SpecFail == InitHub /\ [][FailNext]_vars /\ WF_vars(FailTasks)

(***************************************************************************)
(* The full backlog again, with a second observer that connects and reads  *)
(* while the first one, BroadcastCap events behind, starts reading again.  *)
(***************************************************************************)
LagSessions == {1, 2}

LagNext ==
  \/ \E ev \in HubEvents :
       callbacks < Preloaded + MaxLagRaw /\ WatcherCallback(ev)
  \/ EngineRecv
  \/ EngineStep
  \/ Connect(2)
  \/ ClientResume(1)
  \/ \E s \in LagSessions : SendTaskRecv(s)
  \/ \E s \in LagSessions : SendTaskWriteOk(s)
  \/ Select(1)
  \/ CancelRecv(1)

SpecLag == InitBacklog /\ [][LagNext]_vars

(***************************************************************************)
(* The existence check on a file that is there but whose metadata may      *)
(* become unreadable, as time passes.                                      *)
(***************************************************************************)
StatNext ==
  \/ \E d \in TickSteps : now + d <= MaxTime /\ Tick(d)
  \/ FsDeny(PathA)
  \/ \E ev \in HubEvents : callbacks < MaxStatRaw /\ WatcherCallback(ev)
  \/ EngineRecv
  \/ EngineStep

SpecStat == InitHub /\ [][StatNext]_vars

(***************************************************************************)
(* The debounce loop under raw events of every sort: every raw kind, for   *)
(* a tracked, an untracked and the nameless paths, and renames naming two  *)
(* paths, while a.obj is created and deleted.                              *)
(***************************************************************************)
AnyEvents ==
  {[kind |-> k, paths |-> <<p>>] :
     k \in RawKinds, p \in {PathA, PathTxt} \cup NamelessPaths}
  \cup RenameEvents

AnyNext ==
  \/ FsCreate(PathA)
  \/ FsDelete(PathA)
  \/ \E ev \in AnyEvents : callbacks < MaxAnyRaw /\ WatcherCallback(ev)
  \/ EngineRecv
  \/ EngineStep

SpecAny == Init /\ [][AnyNext]_vars

(***************************************************************************)
(* One session whose observer sends messages, sends a close frame or goes  *)
(* away, beside notifications for a.obj.  The steps of the tasks and of    *)
(* handle_socket are, together, weakly fair; what the observer does is     *)
(* not.                                                                    *)
(***************************************************************************)
InboundSessions == {1}

InboundTasks ==
  \/ EngineRecv
  \/ EngineStep
  \/ \E s \in InboundSessions : SendTaskRecv(s)
  \/ \E s \in InboundSessions : SendTaskWriteOk(s)
  \/ \E s \in InboundSessions : SendTaskWriteErr(s)
  \/ \E s \in InboundSessions : RecvTaskClose(s)
  \/ \E s \in InboundSessions : RecvTaskEnd(s)
  \/ \E s \in InboundSessions : Select(s)
  \/ \E s \in InboundSessions : CancelSend(s)
  \/ \E s \in InboundSessions : CancelRecv(s)

InboundNext ==
  \/ \E ev \in HubEvents : callbacks < MaxInboundRaw /\ WatcherCallback(ev)
  \/ \E s \in InboundSessions : Connect(s)
  \/ \E s \in InboundSessions : inbound[s] < MaxInbound /\ RecvTaskMsg(s)
  \/ \E s \in InboundSessions : ClientClose(s)
  \/ \E s \in InboundSessions : ClientDisconnect(s)
  \/ InboundTasks

SpecInbound == InitHub /\ [][InboundNext]_vars /\ WF_vars(InboundTasks)

(***************************************************************************)
(* The same under the runtime's scheduling: the steps of the loop, of the  *)
(* send_tasks and of the lagging session's teardown are, together, weakly  *)
(* fair.                                                                   *)
(***************************************************************************)
LagTasks ==
  \/ EngineRecv
  \/ EngineStep
  \/ \E s \in LagSessions : SendTaskRecv(s)
  \/ \E s \in LagSessions : SendTaskWriteOk(s)
  \/ Select(1)
  \/ CancelRecv(1)

SpecLagLive == InitBacklog /\ [][LagNext]_vars /\ WF_vars(LagTasks)

(***************************************************************************)
(* Raw events naming two paths: two tracked files in either order, or an   *)
(* untracked file and a tracked one, while the files come and go.          *)
(***************************************************************************)
MultiEvents ==
  {[kind |-> k, paths |-> ps] :
     k \in {"Create", "Modify", "Remove"},
     ps \in {<<PathA, PathB>>, <<PathB, PathA>>, <<PathTxt, PathA>>}}

MultiNext ==
  \/ \E p \in TrackedPaths : FsCreate(p)
  \/ \E p \in TrackedPaths : FsDelete(p)
  \/ \E ev \in MultiEvents : callbacks < MaxMultiRaw /\ WatcherCallback(ev)
  \/ EngineRecv
  \/ EngineStep

SpecMulti == Init /\ [][MultiNext]_vars

(***************************************************************************)
(* The raw queue when it is nearly full: the watch source has reported     *)
(* QueuedBefore events for the existing a.obj, Create and Modify in turn,  *)
(* before the debounce loop ran for the first time.  It reports more of    *)
(* them, and error results, while the loop works the queue off.            *)
(***************************************************************************)
QueuedBefore == WatchQueueCap - 2

\* the i-th event the watch source reports
QueueEvent(i) ==
  [kind |-> IF i % 2 = 1 THEN "Create" ELSE "Modify", paths |-> <<PathA>>]

InitQueue ==
  /\ now = 0
  /\ exists = {PathA}
  /\ unreadable = {}
  /\ callbacks = QueuedBefore
  /\ reported = QueuedBefore
  /\ taken = 0
  /\ watch_q = [i \in 1..QueuedBefore |-> QueueEvent(i)]
  /\ cur_kind = None
  /\ cur_paths = <<>>
  /\ cur_idx = 1
  /\ last_events = <<>>
  /\ published = <<>>
  /\ run = <<>>
  /\ hs = [s \in Sessions |-> "idle"]
  /\ send_task = [s \in Sessions |-> None]
  /\ recv_task = [s \in Sessions |-> None]
  /\ aborted = {}
  /\ conn = [s \in Sessions |-> None]
  /\ subs = {}
  /\ sub_at = [s \in Sessions |-> 0]
  /\ next_pos = [s \in Sessions |-> 0]
  /\ delivered = [s \in Sessions |-> <<>>]
  /\ wire = [s \in Sessions |-> <<>>]
  /\ inbound = [s \in Sessions |-> 0]
  /\ watcher = "watching"
  /\ server = "serving"

QueueNext ==
  \/ /\ callbacks < QueuedBefore + MaxQueueRaw
     /\ WatcherCallback(QueueEvent(reported + 1))
  \/ callbacks < QueuedBefore + MaxQueueRaw /\ WatcherError
  \/ EngineRecv
  \/ EngineStep

\* the debounce loop is a spawned task: the runtime polls it whenever its
\* recv() has an event to return
SpecQueue ==
  InitQueue /\ [][QueueNext]_vars /\ WF_vars(EngineRecv \/ EngineStep)

(***************************************************************************)
(* Properties.                                                             *)
(***************************************************************************)
NameA == FileName(PathA)

\* the step taken is one iteration of the for loop
LoopStep == cur_idx' = cur_idx + 1

\* the path that iteration takes
LoopPath == cur_paths[cur_idx]

\* number of published notifications among seen[i..j]
SentBetween(seen, i, j) == Cardinality({k \in i..j : seen[k].sent})

\* C1: in a run of notifications for one filename that all have the same
\* effective kind, any stretch whose notifications all come no more than
\* 100 ms after its first one has at most one published event.
C1_Dedup ==
  \A f \in DOMAIN run :
    LET seen == run[f].seen
    IN \A i \in 1..Len(seen) : \A j \in i..Len(seen) :
         seen[j].time - seen[i].time <= DebounceMs
           => SentBetween(seen, i, j) <= 1

\* C1 witness: three notifications of one effective kind, the last exactly
\* 100 ms after the first, of which only the first was published.
C1_Witness ==
  \E f \in DOMAIN run :
    LET seen == run[f].seen
    IN /\ Len(seen) = 3
       /\ seen[3].time - seen[1].time = DebounceMs
       /\ seen[1].sent /\ ~seen[2].sent /\ ~seen[3].sent

RemovedEvent(f) == [variant |-> Removed, filename |-> f]

\* the loop takes a Create or Modify notification for a tracked filename
\* whose file does not exist
AbsentCreateOrModify ==
  /\ ~LoopIdle
  /\ LoopStep
  /\ LoopPath \in TrackedPaths
  /\ cur_kind \in {"Create", "Modify"}
  /\ LoopPath \notin exists

\* the filename has a Removed record that is no more than 100 ms old
RecentRemoved(f) ==
  /\ f \in DOMAIN last_events
  /\ last_events[f].kind = "remove"
  /\ now - last_events[f].time <= DebounceMs

\* C2 as stated: a Create or Modify notification for a tracked filename that
\* does not exist always publishes Removed for that filename.
C2_AlwaysRemoved ==
  [][AbsentCreateOrModify
       => published' = Append(published, RemovedEvent(FileName(LoopPath)))]_vars

\* C2 amended: such a notification publishes Removed for that filename, and
\* nothing else, unless the filename already has a Removed record no more
\* than 100 ms old, in which case it publishes nothing; it never publishes
\* Added or Modified.
C2_RemovedUnlessRecent ==
  [][AbsentCreateOrModify
       => IF RecentRemoved(FileName(LoopPath))
          THEN published' = published
          ELSE published' =
                 Append(published, RemovedEvent(FileName(LoopPath)))]_vars

\* C2 witness: a Create notification for an absent file was published as
\* Removed, and a later Modify notification for it was suppressed.
C2_Witness ==
  /\ NameA \in DOMAIN run
  /\ run[NameA].kind = "remove"
  /\ Len(run[NameA].seen) >= 2
  /\ run[NameA].seen[1].raw = "Create" /\ run[NameA].seen[1].sent
  /\ run[NameA].seen[2].raw = "Modify" /\ ~run[NameA].seen[2].sent
  /\ published = <<RemovedEvent(NameA)>>

\* C3: an iteration of the loop on a path whose filename does not end in
\* ".obj" publishes nothing and leaves the debounce map as it is.
C3_SuffixFilter ==
  [][(~LoopIdle /\ LoopStep /\ LoopPath \in UntrackedPaths)
       => UNCHANGED <<published, last_events>>]_vars

\* C3 witness: after an event for a.obj, a notification for a.OBJ has been
\* processed: still one event and one record.
C3_Witness ==
  /\ LoopIdle
  /\ cur_paths = <<PathUpper>>
  /\ Len(published) = 1
  /\ DOMAIN last_events = {NameA}


\* number of times rx.recv() of session s returned the event at position p
Occurrences(s, p) ==
  Cardinality({i \in 1..Len(delivered[s]) : delivered[s][i] = p})

\* session s was subscribed when the event at position p was published
SubscribedAt(s, p) == hs[s] # "idle" /\ sub_at[s] < p /\ p <= Len(published)

\* session s has fallen more than the channel's capacity behind
Lagged(s) == Len(published) - next_pos[s] > BroadcastCap

\* C4: an event published while a session is subscribed is never received
\* twice by it, and is received by it, once, as long as its observer keeps
\* reading and it has not lagged.
C4_FanOut ==
  /\ [](\A s \in StallSessions : \A p \in 1..MaxHubRaw :
         Occurrences(s, p) <= 1)
  /\ \A s \in StallSessions : \A p \in 1..MaxHubRaw :
       (SubscribedAt(s, p) /\ conn[s] = "up")
         ~> (Occurrences(s, p) = 1 \/ conn[s] # "up" \/ Lagged(s))

\* C4 witness: two sessions subscribed before the first event; both have
\* received it, once, and written it to their observers.
C4_Witness ==
  /\ \A s \in {1, 2} :
       /\ sub_at[s] = 0
       /\ delivered[s] = <<1>>
       /\ wire[s] = <<Serialize(published[1])>>
  /\ Len(published) = 1

\* C5: what a session's rx.recv() has returned is the events published
\* after its subscribe() call, in order and without a gap: the i-th event it
\* receives is the i-th one published after it subscribed.  No event
\* published before is among them.
C5_NoReplay ==
  \A s \in Sessions : \A i \in 1..Len(delivered[s]) :
    delivered[s][i] = sub_at[s] + i

\* C5 witness: a session that subscribed after the first event has received
\* the second one and nothing else, while a session that was there from the
\* start has received both.
C5_Witness ==
  /\ Len(published) = 2
  /\ \E s \in Sessions : sub_at[s] = 1 /\ delivered[s] = <<2>>
  /\ \E s \in Sessions : sub_at[s] = 0 /\ delivered[s] = <<1, 2>>

\* the observer of session s has stopped reading
Stalled(s) == conn[s] = "stalled"

\* C6: while one session's observer is stalled, every event published to
\* another subscribed session whose observer keeps reading is received by
\* that session, and the debounce loop finishes the event it is iterating
\* and drains its queue.
C6_SlowConsumerIsolation ==
  /\ \A s \in StallSessions : \A t \in StallSessions \ {s} :
       \A p \in 1..MaxHubRaw :
       (Stalled(s) /\ SubscribedAt(t, p) /\ conn[t] = "up")
         ~> (Occurrences(t, p) = 1 \/ conn[t] # "up")
  /\ \A s \in StallSessions :
       (Stalled(s) /\ (~LoopIdle \/ watch_q # <<>>))
         ~> (LoopIdle /\ watch_q = <<>>)

\* C6 witness: session 1 is stuck writing the first event to a stalled
\* observer; a second event has been published since, and session 2 has
\* received and written both.
C6_Witness ==
  /\ Stalled(1) /\ send_task[1] = "write" /\ next_pos[1] = 1
  /\ Len(published) = 2
  /\ delivered[2] = <<1, 2>>
  /\ Len(wire[2]) = 2

Stopped(task) == task \in {"done", "cancelled"}

\* C7: once the inbound half of a session has ended, its outbound half
\* eventually stops, and once the outbound half has ended, the inbound half
\* eventually stops.
C7_TeardownSymmetry ==
  \A s \in LiveSessions :
    /\ (recv_task[s] = "done") ~> Stopped(send_task[s])
    /\ (send_task[s] = "done") ~> Stopped(recv_task[s])

\* C7 witness: the inbound half ended by itself and the outbound half was
\* cancelled.
C7_Witness ==
  \E s \in LiveSessions : recv_task[s] = "done" /\ send_task[s] = "cancelled"

\* C8 as stated: when handle_socket has returned, neither half is running.
C8_ClosedAfterBothStopped ==
  \A s \in Sessions :
    hs[s] = "closed" => ~Running(send_task[s]) /\ ~Running(recv_task[s])

\* C8 amended: when handle_socket has returned, one half has ended by itself
\* and abort() has been called on the other if it is still running; that
\* half may still be running.
C8_ClosedAfterAbort ==
  \A s \in Sessions :
    hs[s] = "closed" =>
      /\ send_task[s] = "done" \/ recv_task[s] = "done"
      /\ Running(send_task[s]) => <<s, "send">> \in aborted
      /\ Running(recv_task[s]) => <<s, "recv">> \in aborted

\* C8 witness: handle_socket has returned after the inbound half ended, and
\* the aborted outbound half has not been cancelled yet.
C8_Witness ==
  \E s \in Sessions :
    /\ hs[s] = "closed"
    /\ recv_task[s] = "done"
    /\ Running(send_task[s])
    /\ <<s, "send">> \in aborted

\* C9: once a half of a session has ended, the hub eventually no longer
\* counts the session's Receiver.
C9_NoLeakedSubscription ==
  \A s \in LiveSessions :
    (send_task[s] = "done" \/ recv_task[s] = "done") ~> (s \notin subs)

\* C9 witness: handle_socket has returned, the aborted outbound half has
\* been cancelled and its Receiver is gone from the hub.
C9_Witness ==
  \E s \in LiveSessions :
    /\ hs[s] = "closed"
    /\ send_task[s] = "cancelled"
    /\ s \notin subs

\* C10: whenever the debounce loop has a path to process, its step can be
\* taken, whatever the subscribers are doing.
C10_PublishNeverBlocks == ~LoopIdle => ENABLED EngineStep

\* C10 witness: an event has been published although the only subscriber
\* was already a full BroadcastCap events behind.
C10_Witness ==
  /\ 1 \in subs
  /\ Len(published) = Preloaded + 1
  /\ Len(published) - next_pos[1] > BroadcastCap

NameB == FileName(PathB)

\* the event that the i-th value returned by rx.recv() of session s is:
Written(s, i) == published[delivered[s][i]]

\* C11: what a session has written to its observer is, message by message,
\* the serialisation of the events its Receiver returned, and of any two
\* messages for the same filename the one written first was published
\* first.
C11_PerFileOrder ==
  \A s \in OrderSessions :
    /\ Len(wire[s]) <= Len(delivered[s])
    /\ \A i \in 1..Len(wire[s]) : wire[s][i] = Serialize(Written(s, i))
    /\ \A i \in 1..Len(wire[s]) : \A j \in i + 1..Len(wire[s]) :
         wire[s][i].filename = wire[s][j].filename
           => delivered[s][i] < delivered[s][j]

\* C11 witness: Added a.obj, Added b.obj and Modified a.obj were published
\* in this order and a session has written the three in this order.
C11_Witness ==
  /\ published = << [variant |-> Added, filename |-> NameA],
                    [variant |-> Added, filename |-> NameB],
                    [variant |-> Modified, filename |-> NameA] >>
  /\ \E s \in OrderSessions :
       wire[s] = << Serialize(published[1]), Serialize(published[2]),
                    Serialize(published[3]) >>

\* C12 as stated: every message written to an observer has exactly the
\* fields "type" and "filename", its type is "file_added", "file_modified"
\* or "file_removed" according to the variant of the event it carries, and
\* that type is one of the labels the viewer dispatches on.
C12_WireFormat ==
  \A s \in OrderSessions : \A i \in 1..Len(wire[s]) :
    /\ DOMAIN wire[s][i] = {"type", "filename"}
    /\ wire[s][i].filename = Written(s, i).filename
    /\ wire[s][i].type = ViewerCase(Written(s, i).variant)
    /\ wire[s][i].type \in ViewerCases

\* C12 as the code has it: every message written to an observer has exactly
\* the fields "type" and "filename", with the filename of the event it
\* carries; its type is "added", "modified" or "removed", the lower-cased
\* variant name, which is none of the labels the viewer dispatches on.
C12_TagsNotDispatched ==
  \A s \in OrderSessions : \A i \in 1..Len(wire[s]) :
    /\ DOMAIN wire[s][i] = {"type", "filename"}
    /\ wire[s][i].filename = Written(s, i).filename
    /\ wire[s][i].type \in { <<"a", "d", "d", "e", "d">>,
                             <<"m", "o", "d", "i", "f", "i", "e", "d">>,
                             <<"r", "e", "m", "o", "v", "e", "d">> }
    /\ wire[s][i].type \notin ViewerCases

\* C12 witness: an Added and a Modified event for a.obj have been written
\* to an observer, with the types "added" and "modified".
C12_Witness ==
  \E s \in OrderSessions :
    /\ Len(wire[s]) = 2
    /\ wire[s][1] = [type |-> <<"a", "d", "d", "e", "d">>, filename |-> NameA]
    /\ wire[s][2] = [type |-> <<"m", "o", "d", "i", "f", "i", "e", "d">>,
                     filename |-> NameA]

\* C13 as stated: the service never accepts observer connections after the
\* watcher could not be created or attached.
C13_StartupFatal == server = "serving" => watcher # "panicked"

\* C13 witness: attaching the watcher failed and its task panicked; main
\* serves all the same and a connection has been accepted.
C13_Witness ==
  /\ watcher = "panicked"
  /\ server = "serving"
  /\ \E s \in Sessions : hs[s] = "select"

\* the loop takes a Create, Modify or Remove notification for a tracked
\* filename
TrackedStep ==
  /\ ~LoopIdle
  /\ LoopStep
  /\ LoopPath \in TrackedPaths
  /\ cur_kind \in {"Create", "Modify", "Remove"}

\* the effective kind of that notification
EffectiveKind ==
  IF LoopPath \notin exists THEN "remove"
  ELSE CASE cur_kind = "Create" -> "create"
         [] cur_kind = "Modify" -> "modify"
         [] cur_kind = "Remove" -> "remove"

\* the event of an effective kind
EventOf(kind, f) ==
  [variant |-> CASE kind = "create" -> Added
                 [] kind = "modify" -> Modified
                 [] kind = "remove" -> Removed,
   filename |-> f]

\* C14: a notification that passed the filters publishes an event, the one
\* of its effective kind, if and only if its filename has no record, or the
\* record's kind differs from its effective kind, or more than 100 ms have
\* passed since the record's time; otherwise it publishes nothing.
C14_DebounceDecision ==
  [][TrackedStep =>
       LET f == FileName(LoopPath)
           emit == \/ f \notin DOMAIN last_events
                   \/ last_events[f].kind # EffectiveKind
                   \/ now - last_events[f].time > DebounceMs
       IN IF emit
          THEN published' = Append(published, EventOf(EffectiveKind, f))
          ELSE published' = published]_vars

\* C14 witness: Create and then Modify for the existing a.obj, less than
\* 100 ms apart, were published as Added and Modified.
C14_Witness ==
  /\ published = <<EventOf("create", NameA), EventOf("modify", NameA)>>
  /\ now < DebounceMs
  /\ PathA \in exists

\* the debounce decision for the notification the loop is taking
Emits ==
  LET f == FileName(LoopPath)
  IN \/ f \notin DOMAIN last_events
     \/ last_events[f].kind # EffectiveKind
     \/ now - last_events[f].time > DebounceMs

\* C15: a notification that the debounce decision suppresses publishes
\* nothing and leaves the record of its filename, kind and time, and the
\* record of every other filename as they are.
C15_SuppressedNoEffect ==
  [][(TrackedStep /\ ~Emits) => UNCHANGED <<published, last_events>>]_vars

\* C15 witness: a.obj and b.obj have records; a second Create for a.obj,
\* 50 ms after the first, was suppressed and the record of a.obj still has
\* the time of the first.
C15_Witness ==
  /\ LoopIdle
  /\ NameB \in DOMAIN last_events
  /\ NameA \in DOMAIN run
  /\ Len(run[NameA].seen) = 2
  /\ run[NameA].seen[1].sent /\ ~run[NameA].seen[2].sent
  /\ run[NameA].seen[2].time = run[NameA].seen[1].time + 50
  /\ last_events[NameA] = [kind |-> "create", time |-> run[NameA].seen[1].time]

C17_RemovedRetained ==
  [][/\ DOMAIN last_events \subseteq DOMAIN last_events'
     /\ \A f \in {NameA, NameB} :
          published' = Append(published, RemovedEvent(f))
            => /\ f \in DOMAIN last_events'
               /\ last_events'[f] = [kind |-> "remove", time |-> now]
     /\ (TrackedStep /\ EffectiveKind = "remove"
           /\ RecentRemoved(FileName(LoopPath)))
          => UNCHANGED <<published, last_events>>]_vars

\* C17 witness: Removed was published for a.obj, and a further remove
\* notification for it 50 ms later was suppressed by the record kept.
C17_Witness ==
  /\ published = <<RemovedEvent(NameA)>>
  /\ NameA \in DOMAIN run
  /\ run[NameA].kind = "remove"
  /\ Len(run[NameA].seen) = 2
  /\ run[NameA].seen[2].raw = "Remove"
  /\ run[NameA].seen[2].time = run[NameA].seen[1].time + 50
  /\ ~run[NameA].seen[2].sent
  /\ last_events[NameA] = [kind |-> "remove", time |-> run[NameA].seen[1].time]

\* C18: an iteration of the loop on any path of a notification whose raw
\* kind is not Create, Modify or Remove publishes nothing and leaves the
\* debounce map as it is, whether or not the file exists.
C18_RawKindFilter ==
  [][(~LoopIdle /\ LoopStep /\ cur_kind \notin {"Create", "Modify", "Remove"})
       => UNCHANGED <<published, last_events>>]_vars

\* C18 witness: after Added was published for the existing a.obj, a
\* notification of another kind naming a.obj and b.obj has been processed
\* for both paths: still one event and one record.
C18_Witness ==
  /\ LoopIdle
  /\ cur_kind = "Other"
  /\ cur_paths = <<PathA, PathB>>
  /\ PathA \in exists
  /\ published = <<EventOf("create", NameA)>>
  /\ DOMAIN last_events = {NameA}

\* the send_task of session s ends on a failed write
WriteFails(s) == send_task[s] = "write" /\ send_task'[s] = "done"

\* nothing of session t changes
SessionUnchanged(t) ==
  /\ hs'[t] = hs[t]
  /\ send_task'[t] = send_task[t]
  /\ recv_task'[t] = recv_task[t]
  /\ conn'[t] = conn[t]
  /\ next_pos'[t] = next_pos[t]
  /\ delivered'[t] = delivered[t]
  /\ wire'[t] = wire[t]
  /\ (t \in subs') = (t \in subs)

\* C19: the step in which a session's write fails changes nothing of any
\* other session, of the published sequence, of the debounce map or of the
\* loop; a session is closed only after one of its own halves ended; and
\* after the failure every event published to another subscribed session
\* whose observer keeps reading is still received by it.
C19_FailureIsolation ==
  /\ [][\A s \in FailSessions : WriteFails(s) =>
          /\ \A t \in FailSessions \ {s} : SessionUnchanged(t)
          /\ UNCHANGED <<published, engine_vars, aborted>>]_vars
  /\ [](\A t \in FailSessions :
          hs[t] = "closed" => send_task[t] = "done" \/ recv_task[t] = "done")
  /\ \A p \in 1..MaxFailRaw :
       (send_task[1] = "done" /\ SubscribedAt(2, p) /\ conn[2] = "up")
         ~> (Occurrences(2, p) = 1)

\* C19 witness: the write of the first event to session 1 failed and the
\* session is closed; two events have been published, and session 2 has
\* received and written both.
C19_Witness ==
  /\ hs[1] = "closed"
  /\ send_task[1] = "done"
  /\ delivered[1] = <<1>>
  /\ wire[1] = <<>>
  /\ hs[2] = "select"
  /\ Len(published) = 2
  /\ Len(wire[2]) = 2

\* rx.recv() of session s returns
RecvReturns(s) == send_task[s] = "recv" /\ send_task'[s] # "recv"

\* number of published events session s has not moved past
Behind(s) == Len(published) - next_pos[s]

\* C20: an rx.recv() that returns while its session is no more than 100
\* events behind returns the very next event, so that what a session has
\* received has no gap; one that returns while its session is more than 100
\* behind ends the session's send_task without an event, and changes
\* nothing of any other session, of the published sequence or of the loop.
C20_BoundedBacklog ==
  /\ [][\A s \in LagSessions : RecvReturns(s) =>
          IF Behind(s) <= BroadcastCap
          THEN /\ send_task'[s] = "write"
               /\ delivered'[s] = Append(delivered[s], next_pos[s] + 1)
          ELSE /\ send_task'[s] = "done"
               /\ delivered'[s] = delivered[s]
               /\ \A t \in LagSessions \ {s} : SessionUnchanged(t)
               /\ UNCHANGED <<published, engine_vars>>]_vars
  /\ [](\A s \in LagSessions : \A i \in 1..Len(delivered[s]) :
          delivered[s][i] = sub_at[s] + i)

\* C20 witness: session 1 had received one event when a 102nd was
\* published; its next rx.recv() found it 101 behind and ended its
\* send_task, while session 2, connected meanwhile, has received and
\* written the newest event.
C20_Witness ==
  /\ Len(published) = BroadcastCap + 2
  /\ send_task[1] = "done"
  /\ delivered[1] = <<1>>
  /\ Len(wire[1]) = 1
  /\ delivered[2] = <<BroadcastCap + 2>>
  /\ Len(wire[2]) = 1

\* C21 as stated: a notification for a tracked path whose metadata cannot
\* be read at the existence check publishes nothing and changes no record.
C21_StatFailureDiscarded ==
  [][(TrackedStep /\ LoopPath \in exists /\ LoopPath \in unreadable)
       => UNCHANGED <<published, last_events>>]_vars

\* C21 witness: a.obj is on disk with unreadable metadata, and a Modify
\* notification for it has been published as Removed and recorded as a
\* remove.
C21_Witness ==
  /\ PathA \in exists
  /\ PathA \in unreadable
  /\ LoopIdle
  /\ cur_kind = "Modify"
  /\ published = <<RemovedEvent(NameA)>>
  /\ last_events[NameA].kind = "remove"

\* C22: an iteration of the loop on a path without a file name, or whose
\* file name is not UTF-8, publishes nothing and changes no record; and
\* whatever raw events have arrived, the loop can always take its next
\* step: the iteration on the next path, or the next event of the queue.
C22_NamelessDiscarded ==
  /\ [][(~LoopIdle /\ LoopStep /\ LoopPath \in NamelessPaths)
          => UNCHANGED <<published, last_events>>]_vars
  /\ [](/\ watcher = "watching"
        /\ ~LoopIdle => ENABLED EngineStep
        /\ (LoopIdle /\ watch_q # <<>>) => ENABLED EngineRecv)

\* C22 witness: a notification for a name that is not UTF-8 has been
\* processed without a trace, and the loop is ready to take the Create
\* notification for a.obj that waits in the queue.
C22_Witness ==
  /\ LoopIdle
  /\ cur_paths = <<PathBad>>
  /\ published = <<>>
  /\ last_events = <<>>
  /\ watch_q = <<[kind |-> "Create", paths |-> <<PathA>>]>>
  /\ ENABLED EngineRecv

\* recv_task of session s reads a message that is not a close frame
ReadsMessage(s) ==
  /\ recv_task[s] = "read"
  /\ conn[s] # "closing"
  /\ inbound'[s] = inbound[s] + 1

\* C23: once the observer has gone away or has sent a close frame, the
\* inbound half stops reading; once a write has failed because the observer
\* is gone, the outbound half stops; and reading any other inbound message
\* ends neither half and changes nothing but the count of messages read.
C23_HalvesEnd ==
  /\ \A s \in InboundSessions :
       /\ (recv_task[s] = "read" /\ conn[s] \in {"down", "closing"})
            ~> Stopped(recv_task[s])
       /\ (send_task[s] = "write" /\ conn[s] = "down")
            ~> Stopped(send_task[s])
  /\ [][\A s \in InboundSessions : ReadsMessage(s) =>
          UNCHANGED <<send_task, recv_task, hs, aborted, conn, subs,
                      next_pos, delivered, wire, published, engine_vars>>]_vars

\* C23 witness: the observer sent a message and then a close frame; the
\* inbound half has read both and ended by itself, and the session has
\* closed.
C23_Witness ==
  \E s \in InboundSessions :
    /\ inbound[s] = 2
    /\ conn[s] = "down"
    /\ recv_task[s] = "done"
    /\ hs[s] = "closed"

\* C24 as stated: a Remove notification for a tracked file that exists
\* publishes nothing and changes no record.
C24_StaleRemoveIgnored ==
  [][(TrackedStep /\ cur_kind = "Remove" /\ LoopPath \in exists)
       => UNCHANGED <<published, last_events>>]_vars

\* C24 witness: a.obj is on disk, as it always was, and the very first
\* notification for it, a Remove, has been published as Removed and
\* recorded.
C24_Witness ==
  /\ PathA \in exists
  /\ LoopIdle
  /\ cur_kind = "Remove"
  /\ cur_paths = <<PathA>>
  /\ published = <<RemovedEvent(NameA)>>
  /\ DOMAIN last_events = {NameA}
  /\ last_events[NameA].kind = "remove"

\* the positions of the published events for filename f
PublishedFor(f) == {i \in 1..Len(published) : published[i].filename = f}

\* the last of them
LastPublishedFor(f) ==
  published[CHOOSE i \in PublishedFor(f) : \A j \in PublishedFor(f) : j <= i]

\* the times at which notifications of the current run of f were published
SentTimes(f) ==
  {run[f].seen[i].time : i \in {j \in 1..Len(run[f].seen) : run[f].seen[j].sent}}

\* C25: a filename has a record exactly when an event has been published
\* for it; the record's kind is the effective kind of the last event
\* published for the filename and its time is the time of that publication;
\* and no step deletes a record.
C25_RecordInvariant ==
  /\ [](\A f \in {NameA, NameB} :
          /\ f \in DOMAIN last_events <=> PublishedFor(f) # {}
          /\ f \in DOMAIN last_events =>
               /\ LastPublishedFor(f) = EventOf(last_events[f].kind, f)
               /\ run[f].kind = last_events[f].kind
               /\ last_events[f].time \in SentTimes(f)
               /\ \A t \in SentTimes(f) : t <= last_events[f].time)
  /\ [][DOMAIN last_events \subseteq DOMAIN last_events']_vars

\* C25 witness: Added was published for a.obj at time 0; 50 ms later a
\* Modify notification found the file gone and was published as Removed:
\* the record is ("remove", 50), not the raw kind.
C25_Witness ==
  /\ published = <<EventOf("create", NameA), RemovedEvent(NameA)>>
  /\ run[NameA].seen = <<[raw |-> "Modify", time |-> 50, sent |-> TRUE]>>
  /\ last_events[NameA] = [kind |-> "remove", time |-> 50]

\* C26: an rx.recv() that finds its session more than 100 events behind
\* ends the session's send_task; from then on the session receives and
\* writes nothing more, and it is torn down: handle_socket returns, the
\* inbound half stops and the Receiver is released.  The other session is
\* never closed by this.
C26_LagTerminates ==
  /\ [][\A s \in LagSessions :
          /\ (RecvReturns(s) /\ Behind(s) > BroadcastCap)
               => send_task'[s] = "done"
          /\ send_task[s] = "done"
               => /\ send_task'[s] = "done"
                  /\ delivered'[s] = delivered[s]
                  /\ wire'[s] = wire[s]]_vars
  /\ (send_task[1] = "done")
       ~> (hs[1] = "closed" /\ Stopped(recv_task[1]) /\ 1 \notin subs)
  /\ [](hs[2] # "closed" /\ send_task[2] # "done")

\* C26 witness: session 1 lagged after one event and has been torn down
\* with 101 events never delivered to it, while session 2 is open and has
\* received the newest event.
C26_Witness ==
  /\ Len(published) = BroadcastCap + 2
  /\ hs[1] = "closed"
  /\ send_task[1] = "done"
  /\ recv_task[1] = "cancelled"
  /\ delivered[1] = <<1>>
  /\ 1 \notin subs
  /\ hs[2] = "select"
  /\ delivered[2] = <<BroadcastCap + 2>>

\* the last notification before the k-th of a run that was published
LastSentBefore(seen, k) ==
  CHOOSE i \in 1..(k - 1) :
    seen[i].sent /\ \A j \in (i + 1)..(k - 1) : ~seen[j].sent

\* C27: in a run of notifications of one effective kind for a filename,
\* the first is published, and each later one is published exactly when it
\* comes more than 100 ms after the last published one, however many
\* suppressed notifications lie between; so any two published
\* notifications of the run are more than 100 ms apart.
C27_AnchoredAtEmission ==
  \A f \in DOMAIN run :
    LET seen == run[f].seen
    IN /\ seen[1].sent
       /\ \A k \in 2..Len(seen) :
            seen[k].sent <=>
              seen[k].time - seen[LastSentBefore(seen, k)].time > DebounceMs
       /\ \A i \in 1..Len(seen) : \A j \in (i + 1)..Len(seen) :
            (seen[i].sent /\ seen[j].sent)
              => seen[j].time - seen[i].time > DebounceMs

\* C27 witness: three notifications of one kind 51 ms apart: the first was
\* published, the second suppressed, and the third, 51 ms after the second
\* but 102 ms after the first, was published.
C27_Witness ==
  \E f \in DOMAIN run :
    LET seen == run[f].seen
    IN /\ Len(seen) = 3
       /\ seen[2].time = seen[1].time + 51
       /\ seen[3].time = seen[2].time + 51
       /\ seen[1].sent /\ ~seen[2].sent /\ seen[3].sent

\* the record of filename f is (kind, t) and every other record is as it was
RecordSet(f, kind, t) ==
  /\ DOMAIN last_events' = DOMAIN last_events \cup {f}
  /\ last_events'[f] = [kind |-> kind, time |-> t]
  /\ \A g \in DOMAIN last_events \ {f} : last_events'[g] = last_events[g]

\* C28: a notification that passes the debounce decision publishes exactly
\* one event, for its filename and of the variant of its effective kind
\* (create: Added, modify: Modified, remove: Removed), and sets the record
\* of its filename to that kind and the current time in the same step; no
\* passing notification goes without an event, and Added or Modified is
\* published only for a file that existed when the loop checked.
C28_PassingPublishesOne ==
  [][(TrackedStep /\ Emits) =>
       LET f == FileName(LoopPath)
       IN /\ Len(published') = Len(published) + 1
          /\ SubSeq(published', 1, Len(published)) = published
          /\ published'[Len(published')] = EventOf(EffectiveKind, f)
          /\ RecordSet(f, EffectiveKind, now)
          /\ published'[Len(published')].variant \in {Added, Modified}
               => LoopPath \in exists]_vars

\* C28 witness: Create, Modify and Remove for a.obj, each passing the
\* debounce decision, were published as Added, Modified and Removed, and
\* the record holds the kind and time of the last.
C28_Witness ==
  /\ LoopIdle
  /\ published = <<EventOf("create", NameA), EventOf("modify", NameA),
                   EventOf("remove", NameA)>>
  /\ NameA \in DOMAIN last_events
  /\ last_events[NameA] = [kind |-> "remove", time |-> now]

\* every record but the one of filename f is as it was
OtherRecordsKept(f) ==
  \A g \in (DOMAIN last_events \cup DOMAIN last_events') \ {f} :
    /\ g \in DOMAIN last_events
    /\ g \in DOMAIN last_events'
    /\ last_events'[g] = last_events[g]

\* the loop takes the next raw event from the queue
TakesEvent == Len(watch_q') < Len(watch_q)

\* C29: a raw event naming several paths is processed once per path and in
\* the order listed: the loop takes the next raw event only after the last
\* path of the one before, and each step takes the next path with the
\* event's raw kind.  The step for a path decides from the existence of
\* that path and from the record of that path's filename alone, publishes
\* the event of that filename or nothing, and leaves the record of every
\* other filename as it was.
C29_OncePerPath ==
  [][/\ TakesEvent =>
          /\ cur_idx = Len(cur_paths) + 1
          /\ cur_kind' = Head(watch_q).kind
          /\ cur_paths' = Head(watch_q).paths
          /\ cur_idx' = 1
          /\ UNCHANGED <<published, last_events>>
     /\ (~TakesEvent /\ cur_idx' # cur_idx) =>
          /\ cur_idx <= Len(cur_paths)
          /\ cur_idx' = cur_idx + 1
          /\ UNCHANGED <<cur_kind, cur_paths>>
          /\ OtherRecordsKept(FileName(LoopPath))
          /\ IF LoopPath \in TrackedPaths /\ Emits
             THEN /\ published' =
                       Append(published,
                              EventOf(EffectiveKind, FileName(LoopPath)))
                  /\ last_events'[FileName(LoopPath)] =
                       [kind |-> EffectiveKind, time |-> now]
             ELSE UNCHANGED <<published, last_events>>]_vars

\* C29 witness: a Modify event naming a.obj, which is absent, and then
\* b.obj, which is present, was processed to its end: Removed was published
\* for a.obj and then Modified for b.obj, each file with its own record.
C29_Witness ==
  /\ cur_kind = "Modify"
  /\ cur_paths = <<PathA, PathB>>
  /\ cur_idx = 3
  /\ PathA \notin exists
  /\ PathB \in exists
  /\ published = <<EventOf("remove", NameA), EventOf("modify", NameB)>>
  /\ DOMAIN last_events = {NameA, NameB}
  /\ last_events[NameA].kind = "remove"
  /\ last_events[NameB].kind = "modify"

\* C30: the raw queue never holds more than 100 events.  The callback
\* enqueues an event only while there is room, at the end of the queue,
\* and a result that is an error leaves the queue as it is; the loop takes
\* events from the front.  So the queue always holds exactly the reported
\* events that the loop has not taken, in the order reported, the k-th
\* event the loop takes is the k-th reported, and each taken event is
\* processed once.  When the queue is full the source gets room again,
\* and in the end every reported event has been processed.
C30_RawQueue ==
  /\ [](/\ Len(watch_q) <= WatchQueueCap
        /\ taken + Len(watch_q) = reported
        /\ \A i \in 1..Len(watch_q) : watch_q[i] = QueueEvent(taken + i)
        /\ taken > 0 =>
             /\ cur_kind = QueueEvent(taken).kind
             /\ cur_paths = QueueEvent(taken).paths
        /\ Len(published) = IF cur_idx > Len(cur_paths) THEN taken
                            ELSE taken - 1
        /\ \A i \in 1..Len(published) : published[i] = AlternatingEvent(i))
  /\ [][/\ reported' # reported =>
             /\ Len(watch_q) < WatchQueueCap
             /\ watch_q' = Append(watch_q, QueueEvent(reported'))
        /\ (callbacks' # callbacks /\ reported' = reported) =>
             UNCHANGED <<watch_q, taken>>
        /\ taken' # taken =>
             /\ cur_idx > Len(cur_paths)
             /\ watch_q' = Tail(watch_q)]_vars
  /\ [](Len(watch_q) = WatchQueueCap => <>(Len(watch_q) < WatchQueueCap))
  /\ <>[](taken = reported /\ cur_idx > Len(cur_paths))

\* C30 witness: the queue is full again after the loop has taken events
\* from it, and one result of the watch source was an error.
C30_Witness ==
  /\ Len(watch_q) = WatchQueueCap
  /\ taken > 0
  /\ callbacks = reported + 1

=============================================================================
